---- MODULE Spec2Model ----
(***************************************************************************)
(* The analytics ingestion functions of phuket-property.com:               *)
(*   "analytics"  netlify/functions/analytics.ts  (src/unnamed/part_001)   *)
(*                sessions + page_views, check-then-write session upsert,  *)
(*                IP geolocation, GET aggregate read                       *)
(*   "variantA"   netlify/functions/pandalytics.ts, lines 1-242            *)
(*                sessions + pageviews, one batch with ON CONFLICT upsert  *)
(*   "variantB"   netlify/functions/pandalytics.ts, lines 244-403          *)
(*                one INSERT INTO metrics                                  *)
(* A behaviour is one deployment: the endpoint, its environment and the    *)
(* store's schema are fixed by Init; requests arrive in any number and     *)
(* interleave at the handler's await points.                               *)
(*                                                                         *)
(* Columns no claim reads (referrer, user agent, screen size, browser,     *)
(* web vitals, timestamps) are left out of the rows.                       *)
(***************************************************************************)
EXTENDS Integers, Sequences, FiniteSets, TLC

VARIABLES
  endpoint,           \* which function this deployment serves
  env,                \* process.env: [url, token] present or not
  uniqueSessionHash,  \* schema: sessions.session_hash carries a UNIQUE constraint
  sessions,           \* the store's session rows, in rowid order
  page_views,         \* the store's page_views / pageviews / metrics rows
  req,                \* per in-flight invocation: position and locals
  done,               \* the invocation that returned last: request, response, trace
  started             \* invocations begun so far

vars == <<endpoint, env, uniqueSessionHash, sessions, page_views, req, done, started>>

\* ---------------------------------------------------------------- bounds
MaxInFlight == 2      \* invocations suspended at an await at the same time
MaxBeacons == 3       \* racing beacons per behaviour
MaxRequests == 2      \* requests per behaviour when taken one at a time

\* ------------------------------------------------------- JavaScript values
\* A value is [t, v, len]: its typeof tag, its text and, for a string, its
\* length. A string with the text of another and a smaller len is its prefix.
Undefined == [t |-> "undefined", v |-> "", len |-> 0]
Null == [t |-> "null", v |-> "", len |-> 0]
Str(s, n) == [t |-> "string", v |-> s, len |-> n]
Num(s) == [t |-> "number", v |-> s, len |-> 0]

IsString(x) == x.t = "string"

\* JavaScript truthiness of the values the handlers test with !x and ||.
Truthy(x) ==
  CASE x.t = "string" -> x.len > 0
    [] x.t = "number" -> x.v # "0"
    [] OTHER -> FALSE

\* a || b
Or(a, b) == IF Truthy(a) THEN a ELSE b

\* s.substring(0, n)
Substring(s, n) == IF s.len > n THEN [s EXCEPT !.len = n] ELSE s

\* s.includes("localhost"), s.includes("127.0.0.1"): decided on the text.
LocalhostTexts == {"http://localhost:4321", "localhost:8888", "https://localhost:8888"}
LoopbackTexts == {"http://127.0.0.1:8888", "127.0.0.1:8888", "https://127.0.0.1:8888"}
IncludesLocalhost(s) == s.v \in LocalhostTexts
IncludesLoopback(s) == s.v \in LoopbackTexts

\* `https://${host}`
HttpsOf(host) == Str("https://" \o host.v, host.len + 8)

\* hashValue: sha256(value + salt), hex, first 16 characters. The digest is a
\* function of the text and the salt; collisions are not modelled.
DefaultSalt == "default-salt"
hashValue(value, salt) ==
  Str("sha256(" \o value.v \o "[0:" \o ToString(value.len) \o "]+" \o salt \o ")", 16)

\* ------------------------------------------------------------- requests
Endpoints == {"analytics", "variantA", "variantB"}
Methods == {"OPTIONS", "POST", "GET", "PUT"}
\* event.body: absent/empty (parsed as "{}"), not JSON, the JSON literal null,
\* or a JSON object with the fields of the event.
BodyKinds == {"empty", "invalid", "null", "object"}

\* A query-string parameter: absent, or the characters of its text.
QAbsent == [t |-> "undefined", chars |-> <<>>]
QStr(chars) == [t |-> "string", chars |-> chars]
QTruthy(q) == q.t = "string" /\ q.chars # <<>>

NoEvent ==
  [httpMethod |-> "", body |-> "empty",
   path |-> Undefined, siteUrl |-> Undefined, sessionId |-> Undefined,
   nfIp |-> Undefined, xff |-> <<>>, xfh |-> Undefined,
   session_id |-> Undefined, site_id |-> Undefined, url |-> Undefined,
   country_code |-> Undefined, xCountry |-> Undefined,
   days |-> QAbsent, type |-> QAbsent]

PathA == Str("/listing/42", 11)
PathB == Str("/contact", 8)
LongPath == Str("/search?q=...", 501)
SiteUrl == Str("https://phuket-property.com", 27)
LocalUrl == Str("http://localhost:4321", 21)
LoopUrl == Str("http://127.0.0.1:8888", 21)
Host == Str("phuket-property.com", 19)
LocalHost == Str("localhost:8888", 14)
Sid1 == Str("abc123", 6)
SiteId == Str("phuket-property", 15)
Ip1 == Str("203.0.113.7", 11)
Ip2 == Str("198.51.100.9", 12)
Countries == {Str("TH", 2)}


\* --------------------------------------------------------- remote store
\* What one HTTP call to the store comes back with: a 2xx answer whose result
\* is fine ("ok"), a non-2xx status ("http"), a 2xx answer whose result carries
\* an `error` field ("sql"), or fetch itself rejecting ("net").
StoreOutcomes == {"ok", "http", "sql", "net"}

\* TursoHTTPClient.execute: throws on !response.ok, on result[0].error and when
\* fetch rejects; otherwise returns the rows.
ExecuteThrows(outcome) == outcome \in {"http", "sql", "net"}

NoRow == [found |-> FALSE, country_code |-> Null]

\* The rows SELECT ... WHERE session_hash = ? ranges over.
Matching(hash) == {i \in 1..Len(sessions) : sessions[i].session_hash = hash}

\* SELECT country_code FROM sessions WHERE session_hash = ? LIMIT 1: no ORDER
\* BY, so any matching row may be the one returned; rows[0] is undefined when
\* there is none.
SelectCountry(hash) ==
  IF Matching(hash) = {} THEN {NoRow}
  ELSE {[found |-> TRUE, country_code |-> sessions[i].country_code] : i \in Matching(hash)}

\* UPDATE sessions SET last_page = ?, page_count = page_count + 1,
\*   country_code = ? WHERE session_hash = ?: every matching row.
UpdateSessions(rows, path, countryCode, hash) ==
  [i \in 1..Len(rows) |->
     IF rows[i].session_hash = hash
     THEN [rows[i] EXCEPT !.last_page = path,
                          !.page_count = @ + 1,
                          !.country_code = countryCode]
     ELSE rows[i]]

\* INSERT INTO sessions (session_hash, first_page, last_page, ..., country_code).
\* page_count is not among the columns: it takes the table's default, read as
\* 1 (the UPDATE counts each later page as page_count + 1).
NewSession(hash, path, countryCode) ==
  [session_hash |-> hash, first_page |-> path, last_page |-> path,
   page_count |-> 1, country_code |-> countryCode]

\* A page-view row that leaves the session hash out.
NewPageView_NoSession(path, countryCode, hash) ==
  [path |-> path, country_code |-> countryCode, session_hash |-> Null, is_bounce |-> 0]

\* INSERT INTO page_views (path, ..., country_code, ..., session_hash, is_bounce)
NewPageView(path, countryCode, hash) ==
  [path |-> path, country_code |-> countryCode, session_hash |-> hash, is_bounce |-> 0]

\* ----------------------------------------------------------- geolocation
\* getCountryFromIP's fetch: a 2xx answer with a countryCode ("ok"), a 2xx
\* answer without one ("nocode"), a non-2xx status ("status"), fetch rejecting
\* ("error"), or the AbortController's 5000 ms timer firing first ("timeout").
GeoOutcomes == {"ok", "nocode", "status", "error", "timeout"}
GeoFailures == {"status", "error", "timeout"}

\* getCountryFromIP reading the body without testing response.ok.
getCountryFromIP_IgnoresStatus(outcome, country) ==
  IF outcome \in {"ok", "status"} THEN country ELSE Null

\* getCountryFromIP(ip): data.countryCode || null on response.ok; every other
\* path falls through the try/catch to `return null`.
getCountryFromIP(outcome, country) ==
  IF outcome = "ok" THEN country ELSE Null

\* ------------------------------------------------------- GET arguments
\* A JavaScript number: an integer or NaN.
NaN == [nan |-> TRUE, n |-> 0]
JsNum(n) == [nan |-> FALSE, n |-> n]

\* The value of a character as a digit; 99 for a character that is none.
DigitValue(c) ==
  CASE c = "0" -> 0 [] c = "1" -> 1 [] c = "2" -> 2 [] c = "3" -> 3 [] c = "4" -> 4
    [] c = "5" -> 5 [] c = "6" -> 6 [] c = "7" -> 7 [] c = "8" -> 8 [] c = "9" -> 9
    [] c \in {"a", "A"} -> 10 [] c \in {"b", "B"} -> 11 [] c \in {"c", "C"} -> 12
    [] c \in {"d", "D"} -> 13 [] c \in {"e", "E"} -> 14 [] c \in {"f", "F"} -> 15
    [] OTHER -> 99
IsDigit(c, radix) == DigitValue(c) < radix

RECURSIVE SkipWhitespace(_)
SkipWhitespace(s) ==
  IF s # <<>> /\ Head(s) = " " THEN SkipWhitespace(Tail(s)) ELSE s

RECURSIVE ParseDigits(_, _, _)
ParseDigits(s, radix, acc) ==
  IF s = <<>> \/ ~IsDigit(Head(s), radix) THEN acc
  ELSE ParseDigits(Tail(s), radix, acc * radix + DigitValue(Head(s)))

\* parseInt(string) with no radix: leading whitespace, an optional sign, an
\* optional 0x prefix, then the longest run of digits; NaN when there is none.
parseInt(s) ==
  LET t == SkipWhitespace(s)
      neg == t # <<>> /\ Head(t) = "-"
      u == IF t # <<>> /\ Head(t) \in {"+", "-"} THEN Tail(t) ELSE t
      hex == Len(u) >= 2 /\ u[1] = "0" /\ u[2] \in {"x", "X"}
      radix == IF hex THEN 16 ELSE 10
      d == IF hex THEN Tail(Tail(u)) ELSE u
  IN IF d = <<>> \/ ~IsDigit(Head(d), radix) THEN NaN
     ELSE LET m == ParseDigits(d, radix, 0) IN JsNum(IF neg THEN 0 - m ELSE m)

\* Math.max, Math.min: NaN when an argument is NaN.
MathMax(a, b) == IF a.nan \/ b.nan THEN NaN ELSE IF a.n >= b.n THEN a ELSE b
MathMin(a, b) == IF a.nan \/ b.nan THEN NaN ELSE IF a.n <= b.n THEN a ELSE b

DefaultDays == 30
MinDays == 1
MaxDays == 365

\* Math.min(Math.max(parseInt(queryParams.days || "30"), 1), 365)
\* ("30" parses to DefaultDays).
LookbackDays(ev) ==
  MathMin(MathMax(IF QTruthy(ev.days) THEN parseInt(ev.days.chars) ELSE JsNum(DefaultDays),
                  JsNum(MinDays)),
          JsNum(MaxDays))

\* queryParams.type || "pages"; the daily query for "daily", the per-page
\* query for anything else.
ReportOf(ev) ==
  IF QTruthy(ev.type) /\ ev.type.chars = <<"d", "a", "i", "l", "y">> THEN "daily" ELSE "pages"

\* ------------------------------------------------------------ invocation
IdleReq ==
  [pc |-> "idle", ev |-> NoEvent,
   path |-> Null, siteUrl |-> Null, sessionHash |-> Null, clientIP |-> Null,
   countryCode |-> Null, existing |-> NoRow,
   storeCalls |-> 0, geoCalls |-> 0, fail |-> "none", geo |-> "none",
   select |-> "none", held |-> {}, sessionOp |-> "none", pvRow |-> 0,
   days |-> NaN, report |-> "none"]

NoResponse == [statusCode |-> 0, body |-> "none"]
Response(status, body) == [statusCode |-> status, body |-> body]
NoneDone == [r |-> IdleReq, res |-> NoResponse]

\* The handler returns: the slot is free again and `done` keeps the request,
\* the response and the trace of the invocation.
Return(r, locals, status, body) ==
  /\ done' = [r |-> [locals EXCEPT !.pc = "returned"], res |-> Response(status, body)]
  /\ req' = [req EXCEPT ![r] = IdleReq]

\* A new invocation reaches its first await: `done` is about the invocation
\* that returned last only until the next one is taken up.
Accept(r, locals, pc) ==
  /\ req' = [req EXCEPT ![r] = [locals EXCEPT !.pc = pc]]
  /\ done' = NoneDone

\* The handler suspends at a later await.
Await(r, locals, pc) ==
  /\ req' = [req EXCEPT ![r] = [locals EXCEPT !.pc = pc]]
  /\ UNCHANGED done

\* let client = null; set when TURSO_DATABASE_URL && TURSO_AUTH_TOKEN.
client == env.url /\ env.token

\* validateAndSanitizeData keeping a path of any type.
validateAndSanitizeData_AnyPath(data) ==
  [path |-> data.path,
   sessionId |-> IF IsString(data.sessionId) THEN Substring(data.sessionId, 100) ELSE Null,
   siteUrl |-> IF IsString(data.siteUrl) THEN Substring(data.siteUrl, 500) ELSE Null]

\* validateAndSanitizeData
validateAndSanitizeData(data) ==
  [path |-> IF IsString(data.path) THEN Substring(data.path, 500) ELSE Null,
   sessionId |-> IF IsString(data.sessionId) THEN Substring(data.sessionId, 100) ELSE Null,
   siteUrl |-> IF IsString(data.siteUrl) THEN Substring(data.siteUrl, 500) ELSE Null]

\* event.headers["x-nf-client-connection-ip"] ||
\* event.headers["x-forwarded-for"]?.split(",")[0] || null
ClientIP(ev) ==
  Or(ev.nfIp, Or(IF ev.xff = <<>> THEN Undefined ELSE Head(ev.xff), Null))

\* data.siteUrl || (x-forwarded-host ? `https://${x-forwarded-host}` : null)
ResolveSiteUrl(data, ev) ==
  Or(data.siteUrl, IF Truthy(ev.xfh) THEN HttpsOf(ev.xfh) ELSE Null)

\* The local-development filter without the 127.0.0.1 test.
IsLocalDev_NoLoopback(siteUrl) ==
  \/ ~Truthy(siteUrl)
  \/ IncludesLocalhost(siteUrl)

\* !siteUrl || siteUrl.includes("localhost") || siteUrl.includes("127.0.0.1")
IsLocalDev(siteUrl) ==
  \/ ~Truthy(siteUrl)
  \/ IncludesLocalhost(siteUrl)
  \/ IncludesLoopback(siteUrl)

\* JSON.parse(event.body || "{}") succeeds
ParsesAsJson(ev) == ev.body # "invalid"

\* The fields of the parsed body: an absent body is "{}".
Parsed(ev) == IF ev.body = "object" THEN ev ELSE NoEvent

\* analytics handler, from entry to its first await or its return.
Receive(r, ev) ==
  /\ endpoint = "analytics"
  /\ req[r].pc = "idle"
  /\ started' = started + 1
  /\ UNCHANGED <<endpoint, env, uniqueSessionHash, sessions, page_views>>
  /\ LET l0 == [IdleReq EXCEPT !.ev = ev] IN
     IF ev.httpMethod = "OPTIONS" THEN Return(r, l0, 200, "")
     ELSE IF ~client THEN Return(r, l0, 200, "Analytics disabled")
     ELSE IF ev.httpMethod = "POST" THEN
       IF ~ParsesAsJson(ev) \/ ev.body = "null"
       THEN \* JSON.parse or data.path on null throws inside the try
            Return(r, l0, 500, "Failed to track analytics")
       ELSE
         LET data == validateAndSanitizeData(Parsed(ev))
             clientIP == ClientIP(ev)
             siteUrl == ResolveSiteUrl(data, ev)
             sessionHash == IF Truthy(data.sessionId)
                            THEN hashValue(data.sessionId, DefaultSalt) ELSE Null
             l1 == [l0 EXCEPT !.path = data.path, !.siteUrl = siteUrl,
                              !.clientIP = clientIP, !.sessionHash = sessionHash]
         IN IF ~Truthy(data.path) THEN Return(r, l0, 400, "Path is required")
            ELSE IF IsLocalDev(siteUrl) THEN Return(r, l0, 200, "ignored")
            ELSE IF Truthy(sessionHash) THEN Accept(r, l1, "select")
            ELSE IF Truthy(clientIP) THEN Accept(r, l1, "geo")
            ELSE Accept(r, l1, "pageView")
     ELSE IF ev.httpMethod = "GET"
       THEN Accept(r, [l0 EXCEPT !.days = LookbackDays(ev), !.report = ReportOf(ev)], "query")
     ELSE Return(r, l0, 405, "Method not allowed")

\* await client.execute(SELECT country_code ...) and the branch on its row.
SelectSession(r) ==
  /\ req[r].pc = "select"
  /\ UNCHANGED <<endpoint, env, uniqueSessionHash, sessions, page_views, started>>
  /\ \E outcome \in StoreOutcomes :
       LET l0 == [req[r] EXCEPT !.storeCalls = @ + 1] IN
       IF ExecuteThrows(outcome)
       THEN Return(r, [l0 EXCEPT !.fail = outcome], 500, "Failed to track analytics")
       ELSE \E existingSession \in SelectCountry(req[r].sessionHash) :
         LET l1 == [l0 EXCEPT
                      !.existing = existingSession,
                      !.select = IF existingSession.found THEN "hit" ELSE "miss",
                      !.held = {sessions[i].country_code : i \in Matching(req[r].sessionHash)}
                                 \ {Null}]
         IN IF existingSession.found /\ Truthy(existingSession.country_code)
            THEN Await(r, [l1 EXCEPT !.countryCode = existingSession.country_code], "pageView")
            ELSE IF Truthy(req[r].clientIP) THEN Await(r, l1, "geo")
            ELSE Await(r, l1, "sessionWrite")

\* countryCode = await getCountryFromIP(clientIP)
GeoLookup(r) ==
  /\ req[r].pc = "geo"
  /\ UNCHANGED <<endpoint, env, uniqueSessionHash, sessions, page_views, started>>
  /\ \E outcome \in GeoOutcomes, country \in Countries :
       LET l1 == [req[r] EXCEPT !.geoCalls = @ + 1, !.geo = outcome,
                                !.countryCode = getCountryFromIP(outcome, country)]
       IN IF Truthy(req[r].sessionHash)
          THEN Await(r, l1, "sessionWrite")
          ELSE Await(r, l1, "pageView")


\* What the store answers to INSERT INTO sessions: with a UNIQUE constraint on
\* session_hash a second row for the hash is refused with a SQL error.
InsertOutcomes(hash) ==
  IF uniqueSessionHash /\ Matching(hash) # {} THEN {"http", "sql", "net"}
  ELSE StoreOutcomes

\* if (existingSession) UPDATE sessions ... else INSERT INTO sessions ...
WriteSession(r) ==
  /\ req[r].pc = "sessionWrite"
  /\ UNCHANGED <<endpoint, env, uniqueSessionHash, page_views, started>>
  /\ LET l == req[r]
         l0 == [l EXCEPT !.storeCalls = @ + 1]
     IN IF l.existing.found
        THEN \E outcome \in StoreOutcomes :
               IF ExecuteThrows(outcome)
               THEN /\ Return(r, [l0 EXCEPT !.fail = outcome], 500, "Failed to track analytics")
                    /\ UNCHANGED sessions
               ELSE /\ sessions' = UpdateSessions(sessions, l.path, l.countryCode, l.sessionHash)
                    /\ Await(r, [l0 EXCEPT !.sessionOp = "update"], "pageView")
        ELSE \E outcome \in InsertOutcomes(l.sessionHash) :
               IF ExecuteThrows(outcome)
               THEN /\ Return(r, [l0 EXCEPT !.fail = outcome], 500, "Failed to track analytics")
                    /\ UNCHANGED sessions
               ELSE /\ sessions' = Append(sessions, NewSession(l.sessionHash, l.path, l.countryCode))
                    /\ Await(r, [l0 EXCEPT !.sessionOp = "insert"], "pageView")

\* await client.execute(INSERT INTO page_views ...); return 200 {success: true}
InsertPageView(r) ==
  /\ req[r].pc = "pageView"
  /\ UNCHANGED <<endpoint, env, uniqueSessionHash, sessions, started>>
  /\ LET l == req[r]
         l0 == [l EXCEPT !.storeCalls = @ + 1]
     IN \E outcome \in StoreOutcomes :
          IF ExecuteThrows(outcome)
          THEN /\ Return(r, [l0 EXCEPT !.fail = outcome], 500, "Failed to track analytics")
               /\ UNCHANGED page_views
          ELSE /\ page_views' = Append(page_views,
                                       NewPageView(l.path, l.countryCode, l.sessionHash))
               /\ Return(r, [l0 EXCEPT !.pvRow = Len(page_views) + 1], 200, "success")

\* GET: const result = await client.execute({sql, args}) with args = [days];
\* 200 {data: rows}
RunQuery(r) ==
  /\ req[r].pc = "query"
  /\ UNCHANGED <<endpoint, env, uniqueSessionHash, sessions, page_views, started>>
  /\ LET l0 == [req[r] EXCEPT !.storeCalls = @ + 1]
     IN \E outcome \in StoreOutcomes :
          IF ExecuteThrows(outcome)
          THEN Return(r, [l0 EXCEPT !.fail = outcome], 500, "Failed to fetch analytics")
          ELSE Return(r, l0, 200, "data")

\* ------------------------------------------------------ metrics variants
\* if (!session_id || !site_id || !url)
MissingRequired(b) == ~Truthy(b.session_id) \/ ~Truthy(b.site_id) \/ ~Truthy(b.url)

\* country_code || (event.headers["x-country"] ?? null)
FinalCountryCode(b, ev) ==
  Or(b.country_code, IF ev.xCountry.t \in {"undefined", "null"} THEN Null ELSE ev.xCountry)

\* The platform's answer when the handler's promise rejects outside any try.
CrashStatuses == {500, 502}

\* !process.env.PANDALYTICS_TURSO_REST_ENDPOINT || !process.env.PANDALYTICS_TURSO_API_TOKEN
MissingEnvA == ~env.url \/ ~env.token

\* variant A handler, from entry to its fetch or its return.
ReceiveA(r, ev) ==
  /\ endpoint = "variantA"
  /\ req[r].pc = "idle"
  /\ started' = started + 1
  /\ UNCHANGED <<endpoint, env, uniqueSessionHash, sessions, page_views>>
  /\ LET l0 == [IdleReq EXCEPT !.ev = ev]
         b == Parsed(ev)
     IN IF ev.httpMethod # "POST" THEN Return(r, l0, 405, "Method Not Allowed")
        ELSE IF ~ParsesAsJson(ev) THEN Return(r, l0, 400, "Invalid JSON")
        ELSE IF ev.body = "null"
          THEN \* destructuring null throws before any try
               \E s \in CrashStatuses : Return(r, l0, s, "unhandled rejection")
        ELSE IF MissingRequired(b)
          THEN Return(r, l0, 400, "Missing required fields: session_id, site_id, url")
        ELSE IF MissingEnvA THEN Return(r, l0, 500, "Server configuration error")
        ELSE Accept(r, [l0 EXCEPT !.countryCode = FinalCountryCode(b, ev)], "batch")

\* INSERT INTO sessions ... ON CONFLICT(session_id) DO UPDATE SET
\*   country_code = COALESCE(country_code, EXCLUDED.country_code), ...
Coalesce(a, b) == IF a.t = "null" THEN b ELSE a
UpsertSession(rows, session_id, site_id, countryCode) ==
  IF \E i \in 1..Len(rows) : rows[i].session_id = session_id
  THEN [i \in 1..Len(rows) |->
          IF rows[i].session_id = session_id
          THEN [rows[i] EXCEPT !.country_code = Coalesce(@, countryCode)]
          ELSE rows[i]]
  ELSE Append(rows, [session_id |-> session_id, site_id |-> site_id,
                     country_code |-> countryCode])

\* INSERT INTO pageviews (session_id, url, path, ...)
NewPageviewA(b) ==
  [session_id |-> b.session_id, url |-> b.url, path |-> Or(b.path, Null)]

\* How many of the batch's two statements took effect when the 2xx answer
\* carries an error: the source opens no transaction.
AppliedOnError == {0, 1}

\* variant A: the one fetch carrying both statements, and the response.
\* Only !response.ok and a rejected fetch are treated as failures.
BatchA(r) ==
  /\ req[r].pc = "batch"
  /\ UNCHANGED <<endpoint, env, uniqueSessionHash, started>>
  /\ LET l == req[r]
         b == l.ev
         l0 == [l EXCEPT !.storeCalls = @ + 1]
         upserted == UpsertSession(sessions, b.session_id, b.site_id, l.countryCode)
     IN \E outcome \in StoreOutcomes :
          CASE outcome = "ok" ->
                 /\ sessions' = upserted
                 /\ page_views' = Append(page_views, NewPageviewA(b))
                 /\ Return(r, [l0 EXCEPT !.sessionOp = "upsert",
                                         !.pvRow = Len(page_views) + 1], 200, "ok")
            [] outcome = "http" ->
                 /\ UNCHANGED <<sessions, page_views>>
                 /\ Return(r, [l0 EXCEPT !.fail = outcome], 500, "Database error")
            [] outcome = "net" ->
                 /\ UNCHANGED <<sessions, page_views>>
                 /\ Return(r, [l0 EXCEPT !.fail = outcome], 500, "Internal server error")
            [] outcome = "sql" ->
                 \E n \in AppliedOnError :
                   /\ sessions' = IF n = 1 THEN upserted ELSE sessions
                   /\ UNCHANGED page_views
                   /\ Return(r, [l0 EXCEPT !.fail = outcome,
                                           !.sessionOp = IF n = 1 THEN "upsert" ELSE "none"],
                             200, "ok")

\* variant B handler, from entry to its fetch or its return. It reads
\* TURSO_REST_ENDPOINT unchecked: fetch(undefined) rejects inside the try.
ReceiveB(r, ev) ==
  /\ endpoint = "variantB"
  /\ req[r].pc = "idle"
  /\ started' = started + 1
  /\ UNCHANGED <<endpoint, env, uniqueSessionHash, sessions, page_views>>
  /\ LET l0 == [IdleReq EXCEPT !.ev = ev]
         b == Parsed(ev)
     IN IF ev.httpMethod # "POST" THEN Return(r, l0, 405, "Method Not Allowed")
        ELSE IF ~ParsesAsJson(ev) THEN Return(r, l0, 400, "Invalid JSON")
        ELSE IF ev.body = "null"
          THEN \E s \in CrashStatuses : Return(r, l0, s, "unhandled rejection")
        ELSE IF MissingRequired(b)
          THEN Return(r, l0, 400, "Missing required fields: session_id, site_id, url")
        ELSE IF ~env.url THEN Return(r, l0, 500, "Internal server error")
        ELSE Accept(r, [l0 EXCEPT !.countryCode = Or(b.country_code, Null)], "metric")

\* INSERT INTO metrics (session_id, site_id, url, ..., country_code, ...)
NewMetric(b, countryCode) ==
  [session_id |-> b.session_id, site_id |-> b.site_id, url |-> b.url,
   country_code |-> countryCode]

\* `Bearer ${undefined}` is refused by the store.
MetricOutcomes == IF env.token THEN StoreOutcomes ELSE {"http", "net"}

\* variant B: the fetch carrying the one INSERT, and the response.
InsertMetric(r) ==
  /\ req[r].pc = "metric"
  /\ UNCHANGED <<endpoint, env, uniqueSessionHash, sessions, started>>
  /\ LET l == req[r]
         l0 == [l EXCEPT !.storeCalls = @ + 1]
     IN \E outcome \in MetricOutcomes :
          CASE outcome = "ok" ->
                 /\ page_views' = Append(page_views, NewMetric(l.ev, l.countryCode))
                 /\ Return(r, [l0 EXCEPT !.pvRow = Len(page_views) + 1], 200, "ok")
            [] outcome = "http" ->
                 /\ UNCHANGED page_views
                 /\ Return(r, [l0 EXCEPT !.fail = outcome], 500, "Database error")
            [] outcome = "net" ->
                 /\ UNCHANGED page_views
                 /\ Return(r, [l0 EXCEPT !.fail = outcome], 500, "Internal server error")
            [] outcome = "sql" ->
                 /\ UNCHANGED page_views
                 /\ Return(r, [l0 EXCEPT !.fail = outcome], 200, "ok")


\* ------------------------------------------------------- request inputs
Post(fields) == [fields EXCEPT !.httpMethod = "POST", !.body = "object"]

\* Requests without a usable body: the other methods, and POST with an
\* absent, non-JSON or `null` body.
BareRequests ==
  {[NoEvent EXCEPT !.httpMethod = m] : m \in Methods}
  \cup {[NoEvent EXCEPT !.httpMethod = "POST", !.body = k] : k \in {"invalid", "null"}}

\* The `days` parameters of a GET: absent, empty, in range, above 365, zero,
\* negative, not a number, a number followed by text, hexadecimal.
DaysParams ==
  {QAbsent, QStr(<<>>), QStr(<<"7">>), QStr(<<"4", "0", "0">>), QStr(<<"0">>),
   QStr(<<"-", "5">>), QStr(<<"a", "b", "c">>), QStr(<<"1", "2", "p", "x">>),
   QStr(<<"0", "x", "1", "0">>)}
TypeParams == {QAbsent, QStr(<<"d", "a", "i", "l", "y">>), QStr(<<"x">>)}

GetRequests ==
  {[NoEvent EXCEPT !.httpMethod = "GET", !.days = d, !.type = t] :
     d \in DaysParams, t \in TypeParams}

Beacon(p, u, h, s, i, f) ==
  Post([NoEvent EXCEPT !.path = p, !.siteUrl = u, !.xfh = h, !.sessionId = s,
                       !.nfIp = i, !.xff = f])

\* Every shape of request to the analytics function: a path that is absent,
\* not a string, empty, short or longer than 500 characters; a site URL from
\* the payload or from x-forwarded-host, public or local; with and without a
\* session id; the client IP from either header or from none.
AnalyticsRequests ==
  BareRequests \cup GetRequests
  \cup {Beacon(p, uh[1], uh[2], Sid1, Ip1, <<>>) :
          p \in {Undefined, Num("42"), Str("", 0)},
          uh \in {<<SiteUrl, Undefined>>, <<LocalUrl, Undefined>>, <<Undefined, Undefined>>}}
  \cup {Beacon(p, uh[1], uh[2], Sid1, Ip1, <<>>) :
          p \in {PathA, LongPath},
          uh \in {<<LocalUrl, Host>>, <<LoopUrl, Undefined>>,
                  <<Undefined, LocalHost>>, <<Undefined, Undefined>>}}
  \cup {Beacon(p, uh[1], uh[2], s, if[1], if[2]) :
          p \in {PathA, LongPath},
          uh \in {<<SiteUrl, LocalHost>>, <<Undefined, Host>>},
          s \in {Undefined, Sid1},
          if \in {<<Ip1, <<>> >>, <<Undefined, <<Ip2, Ip1>> >>, <<Undefined, <<>> >>}}

\* Every shape of request to the metrics functions.
MetricsRequests ==
  BareRequests \cup
  {Post([NoEvent EXCEPT !.session_id = s, !.site_id = t, !.url = u,
                        !.country_code = c, !.xCountry = x]) :
     s \in {Undefined, Str("", 0), Sid1},
     t \in {Undefined, SiteId},
     u \in {Undefined, SiteUrl},
     c \in {Undefined} \cup Countries,
     x \in {Undefined, Str("GB", 2)}}

\* The beacons of one visit, as they race: one session id, two pages.
AnalyticsBeacons ==
  {Post([NoEvent EXCEPT !.path = p, !.siteUrl = SiteUrl, !.sessionId = Sid1, !.nfIp = Ip1]) :
     p \in {PathA, PathB}}

MetricsBeacons ==
  {Post([NoEvent EXCEPT !.session_id = Sid1, !.site_id = SiteId,
                        !.url = SiteUrl, !.country_code = c]) :
     c \in {Undefined} \cup Countries}

\* ---------------------------------------------------------- specifications
Slots == 1..MaxInFlight

Init ==
  /\ endpoint \in Endpoints
  /\ env \in [url : BOOLEAN, token : BOOLEAN]
  /\ uniqueSessionHash \in (IF endpoint = "analytics" THEN BOOLEAN ELSE {TRUE})
  /\ sessions = <<>>
  /\ page_views = <<>>
  /\ req = [r \in Slots |-> IdleReq]
  /\ done = NoneDone
  /\ started = 0

\* Invocations take the lowest free slot: the slots are interchangeable.
LowestIdle(r) == \A q \in 1..(r - 1) : req[q].pc # "idle"

Step(r) ==
  \/ SelectSession(r)
  \/ GeoLookup(r)
  \/ WriteSession(r)
  \/ InsertPageView(r)
  \/ BatchA(r)
  \/ InsertMetric(r)

\* Beacons of one visit arriving concurrently.
Next ==
  \E r \in Slots :
    \/ started < MaxBeacons /\ LowestIdle(r) /\ \E ev \in AnalyticsBeacons : Receive(r, ev)
    \/ started < MaxBeacons /\ LowestIdle(r) /\ \E ev \in MetricsBeacons : ReceiveA(r, ev)
    \/ started < MaxBeacons /\ LowestIdle(r) /\ \E ev \in MetricsBeacons : ReceiveB(r, ev)
    \/ Step(r)

Spec == Init /\ [][Next]_vars

\* Requests of every shape, one at a time.
NextRequests ==
  \/ started < MaxRequests /\ \E ev \in AnalyticsRequests : Receive(1, ev)
  \/ started < MaxRequests /\ \E ev \in MetricsRequests : ReceiveA(1, ev)
  \/ started < MaxRequests /\ \E ev \in MetricsRequests : ReceiveB(1, ev)
  \/ Step(1)
  \/ RunQuery(1)

SpecRequests == Init /\ [][NextRequests]_vars


\* ================================================================ claims
\* The request of the invocation that returned last, its response and trace.
Ev == done.r.ev
Res == done.res
Returned == done.r.pc = "returned"
IsPost == Returned /\ Ev.httpMethod = "POST"

\* The session identifier a row is stored under at this endpoint.
SessionKey(row) == IF endpoint = "analytics" THEN row.session_hash ELSE row.session_id

\* ------------------------------------------------------------------ C1
\* C1: the sessions table never holds two rows with the same session id,
\* whatever the interleaving of the beacons that carry it.
OneRowPerSession ==
  \A i, j \in 1..Len(sessions) :
    SessionKey(sessions[i]) = SessionKey(sessions[j]) => i = j

\* ------------------------------------------------------------------ C2
\* C2: a stored country code that is non-null never becomes null again: no
\* step replaces a non-null country_code of a session row by null.
CountryNeverReset ==
  [][\A i \in 1..Len(sessions) :
       sessions[i].country_code # Null => sessions'[i].country_code # Null]_vars

\* ------------------------------------------------------------------ C3
\* The beacon lacks a required field: for the analytics function `path` is
\* absent, not a string or empty; for the metrics variants one of session_id,
\* site_id, url is absent or empty.
Absent(x) == x.t # "string" \/ x.len = 0
LacksRequired(ev) ==
  /\ ev.httpMethod = "POST"
  /\ ev.body \in {"empty", "object"}
  /\ IF endpoint = "analytics"
     THEN ev.body = "empty" \/ Absent(ev.path)
     ELSE ev.body = "empty" \/ Absent(ev.session_id) \/ Absent(ev.site_id) \/ Absent(ev.url)

NamesMissingField ==
  Res.body = (IF endpoint = "analytics" THEN "Path is required"
              ELSE "Missing required fields: session_id, site_id, url")

NoOutboundCall == done.r.storeCalls = 0 /\ done.r.geoCalls = 0

LocalBeacon(ev) ==
  /\ ev.httpMethod = "POST" /\ ev.body = "object"
  /\ ev.path \in {PathA, PathB, LongPath}
  /\ \/ ev.siteUrl \in {LocalUrl, LoopUrl}
     \/ ev.siteUrl = Undefined /\ ev.xfh = LocalHost

\* C4 as claimed: such a beacon is answered 200 {ignored: true} and makes no
\* store call and no geolocation call.
LocalBeaconIgnored ==
  (endpoint = "analytics" /\ Returned /\ LocalBeacon(Ev)) =>
    (Res.statusCode = 200 /\ Res.body = "ignored" /\ NoOutboundCall)

\* C4 amended: the same where the database client is configured; without it
\* the answer is 200 "Analytics disabled", still with no outbound call.
LocalBeaconIgnoredWhenConfigured ==
  /\ (endpoint = "analytics" /\ Returned /\ LocalBeacon(Ev)) =>
       /\ NoOutboundCall
       /\ Res.statusCode = 200
       /\ Res.body = (IF client THEN "ignored" ELSE "Analytics disabled")
  /\ endpoint = "analytics" => \A r \in Slots : req[r].pc # "idle" => ~LocalBeacon(req[r].ev)

\* C4 witness: a beacon whose site URL comes from x-forwarded-host and is
\* local has been ignored, after an earlier beacon was stored.
LocalHostIgnored ==
  /\ endpoint = "analytics" /\ client
  /\ Returned /\ LocalBeacon(Ev) /\ Ev.siteUrl = Undefined
  /\ Res.body = "ignored"
  /\ Len(page_views) > 0


\* ------------------------------------------------------------------ C5
\* C5: when the store holds, as the handler's SELECT is served, a session row
\* for the beacon's session hash with a non-null country, the handler issues
\* no geolocation lookup and the page-view row it inserts carries that stored
\* country; and no request issues more than one lookup.
SessionCountryReused ==
  /\ (endpoint = "analytics" /\ Returned /\ done.r.held # {}) =>
       /\ done.r.geoCalls = 0
       /\ done.r.pvRow # 0 => page_views[done.r.pvRow].country_code \in done.r.held
  /\ Returned => done.r.geoCalls <= 1

\* ------------------------------------------------------------------ C6
\* C6: when the geolocation call errors, answers a non-success status or runs
\* into the 5 s timeout, the lookup yields null and the beacon, its store
\* calls succeeding, is answered 200 {success: true}; the page-view row and
\* the session row it wrote carry a null country code.
GeoFailureStillSucceeds ==
  (endpoint = "analytics" /\ Returned /\ done.r.geo \in GeoFailures) =>
    /\ done.r.countryCode = Null
    /\ done.r.fail = "none" =>
         /\ Res.statusCode = 200 /\ Res.body = "success"
         /\ done.r.pvRow = Len(page_views)
         /\ page_views[done.r.pvRow].country_code = Null
         /\ Truthy(done.r.sessionHash) =>
              /\ done.r.sessionOp \in {"insert", "update"}
              /\ Matching(done.r.sessionHash) # {}
              /\ \A i \in Matching(done.r.sessionHash) : sessions[i].country_code = Null

\* C6 witness: a beacon of a known session without a country was stored with
\* a null country after its lookup timed out.
GeoTimeoutStored ==
  /\ endpoint = "analytics" /\ Returned
  /\ done.r.geo = "timeout" /\ done.r.sessionOp = "update"
  /\ Res.statusCode = 200 /\ Res.body = "success"
  /\ page_views[Len(page_views)].country_code = Null

\* ------------------------------------------------------------------ C7
\* C7: when the store signals failure for a statement of a beacon, by a
\* non-success status or by an `error` field inside a 2xx answer, the handler
\* answers 500 and issues no further statement.
StoreFailureIs500 ==
  (Returned /\ done.r.fail # "none") => Res.statusCode = 500

\* ------------------------------------------------------------------ C8
\* C8: at each endpoint, in every configuration, OPTIONS is answered 200 with
\* an empty body, GET is an aggregate read only at the analytics function,
\* and every method other than OPTIONS, POST and GET is answered 405.
MethodRouting ==
  Returned =>
    /\ Ev.httpMethod = "OPTIONS" => (Res.statusCode = 200 /\ Res.body = "")
    /\ Ev.httpMethod \notin {"OPTIONS", "POST", "GET"} => Res.statusCode = 405
    /\ (Ev.httpMethod = "GET" /\ endpoint # "analytics") => Res.statusCode = 405

\* ------------------------------------------------------------------ C9
\* A beacon that carries its required fields.
WellFormed(ev) ==
  /\ ev.httpMethod = "POST" /\ ev.body = "object"
  /\ IF endpoint = "analytics" THEN ~Absent(ev.path)
     ELSE ~Absent(ev.session_id) /\ ~Absent(ev.site_id) /\ ~Absent(ev.url)

\* C9: when the database URL or the auth token is missing from the
\* environment, a beacon is answered 200 "analytics disabled" and makes no
\* store call and no geolocation call.
DisabledIsSuccess ==
  (Returned /\ WellFormed(Ev) /\ ~(env.url /\ env.token)) =>
    (Res.statusCode = 200 /\ Res.body = "Analytics disabled" /\ NoOutboundCall)

\* ----------------------------------------------------------------- C10
\* C10: with the database configured, a POST whose body is not valid JSON is
\* answered 400 at every ingestion endpoint and causes no store call.
InvalidJsonIs400 ==
  (IsPost /\ Ev.body = "invalid" /\ env.url /\ env.token) =>
    (Res.statusCode = 400 /\ done.r.storeCalls = 0)

\* C11: every GET of the session/pageview function, whatever its `days`
\* parameter is, issues exactly one store query, and the lookback argument of
\* that query is an integer in 1..365. (Stated for a configured client, the
\* only deployment in which a GET reaches the store.)
LookbackInRange ==
  (endpoint = "analytics" /\ client /\ Returned /\ Ev.httpMethod = "GET")
    => /\ done.r.storeCalls = 1
       /\ ~done.r.days.nan
       /\ done.r.days.n \in MinDays..MaxDays

\* ----------------------------------------------------------------- C12
\* The fingerprint the handler computes for the session id of a beacon.
FingerprintOf(ev) == hashValue(validateAndSanitizeData(Parsed(ev)).sessionId, DefaultSalt)

\* The handler in slot 1 is serving a beacon with a session id for which the
\* store holds no session row.
FreshSession ==
  /\ endpoint = "analytics"
  /\ req[1].pc \in {"select", "geo", "sessionWrite", "pageView"}
  /\ Truthy(req[1].sessionHash)
  /\ req[1].sessionHash = FingerprintOf(req[1].ev)
  /\ req[1].sessionOp # "update"

\* The step returns because a store call failed.
StoreCallFails == done'.r.pc = "returned" /\ done'.r.fail # "none"

NewSessionStep ==
  LET l == req[1]
      h == FingerprintOf(l.ev)
      n == Len(page_views)
  IN
  \* before the session write: nothing is stored, and only a failed store
  \* call ends the request
  /\ (FreshSession /\ l.pc \in {"select", "geo"} /\ Matching(h) = {}) =>
        /\ sessions' = sessions /\ page_views' = page_views
        /\ done'.r.pc = "returned" => done'.r.fail # "none"
        /\ ~StoreCallFails => req'[1].pc \in {"geo", "sessionWrite"}
  \* the session write: exactly one new row, with the fingerprint
  /\ (FreshSession /\ l.pc = "sessionWrite" /\ Matching(h) = {}) =>
        /\ page_views' = page_views
        /\ IF StoreCallFails THEN sessions' = sessions
           ELSE /\ Len(sessions') = Len(sessions) + 1
                /\ SubSeq(sessions', 1, Len(sessions)) = sessions
                /\ sessions'[Len(sessions')].session_hash = h
                /\ sessions'[Len(sessions')].first_page = l.path
                /\ req'[1].pc = "pageView" /\ req'[1].sessionOp = "insert"
  \* then the page view: exactly one new row, with the same fingerprint, the
  \* rows before it untouched, and 200 {success: true}
  /\ (FreshSession /\ l.pc = "pageView" /\ l.sessionOp = "insert") =>
        /\ sessions' = sessions
        /\ Cardinality(Matching(h)) = 1
        /\ IF StoreCallFails THEN page_views' = page_views
           ELSE /\ Len(page_views') = n + 1
                /\ SubSeq(page_views', 1, n) = page_views
                /\ page_views'[n + 1].session_hash = h
                /\ page_views'[n + 1].path = l.path
                /\ \A i \in Matching(h) : sessions[i].session_hash = page_views'[n + 1].session_hash
                /\ done'.r.pc = "returned"
                /\ done'.res = Response(200, "success")
                /\ done'.r.storeCalls = 3

\* C12: a beacon with a valid path, a non-local site URL and a session id
\* that has no session row, its store calls succeeding, inserts exactly one
\* session row and then exactly one page-view row, both with the hashed
\* fingerprint of the session id, and is answered 200 {success: true}; the
\* page-view rows already stored are left as they were.
NewSessionBeacon == [][NewSessionStep]_vars

\* C12 witness: a first beacon of a session was answered 200 {success: true}
\* after inserting its session row and its page-view row, behind a page-view
\* row that was stored before.
NewSessionStored ==
  /\ endpoint = "analytics" /\ Returned
  /\ done.r.sessionOp = "insert" /\ done.r.select = "miss"
  /\ Res = Response(200, "success")
  /\ Len(page_views) >= 2 /\ done.r.pvRow = Len(page_views)
  /\ page_views[Len(page_views)].session_hash = FingerprintOf(Ev)
  /\ Cardinality(Matching(FingerprintOf(Ev))) = 1

\* ----------------------------------------------------------------- C13
\* C13: every successful beacon of the session/pageview function whose
\* session already has a session row updates that row, whether the row was
\* missing a country or carried one: afterwards the row's last page is the
\* beacon's path and its page count has been incremented beyond the 1 it was
\* created with.
SessionFollowsBeacon ==
  (endpoint = "analytics" /\ IsPost /\ done.r.select = "hit"
     /\ Res = Response(200, "success")) =>
    /\ done.r.sessionOp = "update"
    /\ \A i \in Matching(done.r.sessionHash) :
         /\ sessions[i].last_page = done.r.path
         /\ sessions[i].page_count >= 2

====
